---- MODULE Spec2Model ----
(***************************************************************************)
(* Model of thutil: the multi-machine chunked job dispatcher               *)
(* (src/thutil/dispatcher.py) and the chunker (src/thutil/stuff.py).       *)
(*                                                                         *)
(* Tasks are identified by their position in task_dirs (1..N).  A          *)
(* work_load_ratio is a numerator over RatioDen; for these ratios and for  *)
(* 1.0/num_machines the float product under math.ceil equals the exact     *)
(* ceiling at the list lengths of this model (compared in Python up to     *)
(* length 24), so ceil() is computed on integers.  An optional dictionary  *)
(* entry (mdict.get) is <<>> when the key is absent and <<v>> when it is   *)
(* present.                                                                *)
(***************************************************************************)
EXTENDS Integers, Sequences, FiniteSets, TLC

(* ------------------------------ bounds -------------------------------- *)
MaxTasks == 5

MaxTargets == 3

MaxCalls == 2

DispTasks == 3

DispTargets == 2

LockTasks == 2

MaxLen == 4

MaxChunk == 3

(* ------------------------- program constants -------------------------- *)
RatioDen == 4
\* unpack_indices: items per list, and the largest start, span and step of
\* a range item
MaxItems == 3
MaxStart == 6
MaxSpan == 4
MaxStep == 2
\* unpack_dict: first-level entries of the nested dictionary
MaxOuter == 3
\* the chunk loops: tasks of the list, clock readings after the first, and
\* the seconds between two readings
LoopTasks == 3
MaxTicks == 3
TickSeconds == 40
\* concurrent calls next to a dispatch over more targets than _COLOR_MAP has
PastCalls == 2
\* the allocation loop over many targets: tasks and targets
WideTasks == 525
WideTargets == 75

DefaultJobLimit == 5

ColorMapSize == 6

(* --------------------------- pure helpers ----------------------------- *)
\* math.ceil(a / b) for b > 0
Ceil(a, b) == (a + b - 1) \div b

Min(a, b) == IF a <= b THEN a ELSE b

Max(a, b) == IF a >= b THEN a ELSE b

\* Python's index clamping for a slice bound k on a list of length len
ClampIndex(k, len) == IF k < 0 THEN Max(len + k, 0) ELSE Min(k, len)

\* Python's s[lo:hi]
PySlice(s, lo, hi) ==
    LET a == ClampIndex(lo, Len(s))
        b == ClampIndex(hi, Len(s))
    IN  IF a >= b THEN <<>> ELSE SubSeq(s, a + 1, b)

\* Python's s[:k]
PyPrefix(s, k) == PySlice(s, 0, k)

\* Python's s[k:]
PySuffix(s, k) ==
    LET a == ClampIndex(k, Len(s))
    IN  IF a >= Len(s) THEN <<>> ELSE SubSeq(s, a + 1, Len(s))

RECURSIVE Flatten(_)
Flatten(ss) == IF ss = <<>> THEN <<>> ELSE Head(ss) \o Flatten(Tail(ss))

Range(s) == {s[j] : j \in 1..Len(s)}

(* ------------------- double-precision floats (IEEE 754) ---------------- *)
\* A positive double is [m |-> its 53 significand bits, first bit 1, most
\* significant first, e |-> the exponent of the last bit]: the value is
\* (m read as a binary numeral) * 2^e.
Precision == 53

\* numerals are multiplied in groups of LimbBits bits
LimbBits == 14

Pow2(j) == 2 ^ j

Zeros(count) == [j \in 1..count |-> 0]

\* the numeral of c >= 0 in width bits, c < 2^width
ToBits(c, width) == [j \in 1..width |-> (c \div Pow2(width - j)) % 2]

RECURSIVE IntOf(_)
IntOf(bits) ==
    IF bits = <<>> THEN 0
    ELSE 2 * IntOf(SubSeq(bits, 1, Len(bits) - 1)) + bits[Len(bits)]

\* the numeral without its leading zeros, some bit being 1
StripZeros(bits) ==
    LET first == CHOOSE j \in 1..Len(bits) :
                     bits[j] = 1 /\ \A h \in 1..(j - 1) : bits[h] = 0
    IN  SubSeq(bits, first, Len(bits))

\* bits + 1; one bit longer when every bit was 1
Increment(bits) ==
    IF \A j \in 1..Len(bits) : bits[j] = 1
    THEN <<1>> \o Zeros(Len(bits))
    ELSE LET last == CHOOSE j \in 1..Len(bits) :
                         bits[j] = 0 /\ \A h \in (j + 1)..Len(bits) : bits[h] = 1
         IN  [j \in 1..Len(bits) |->
                 IF j < last THEN bits[j] ELSE IF j = last THEN 1 ELSE 0]

\* round-half-even of the numeral bits (first bit 1, at least Precision
\* bits) followed by a nonzero tail iff sticky, to Precision bits; e is
\* the exponent of the last bit of bits
RoundDouble(bits, sticky, e) ==
    LET kept == SubSeq(bits, 1, Precision)
        rest == SubSeq(bits, Precision + 1, Len(bits))
        guard == IF rest = <<>> THEN 0 ELSE rest[1]
        below == sticky \/ \E j \in 2..Len(rest) : rest[j] = 1
        up == guard = 1 /\ (below \/ kept[Precision] = 1)
        raised == IF up THEN Increment(kept) ELSE kept
    IN  IF Len(raised) > Precision
        THEN [m |-> SubSeq(raised, 1, Precision), e |-> e + Len(rest) + 1]
        ELSE [m |-> raised, e |-> e + Len(rest)]

RECURSIVE PowMod(_, _)
\* 2^j mod k: what long division of 1 by k leaves after j bits
PowMod(j, k) ==
    IF j = 0 THEN 1 % k
    ELSE LET h == PowMod(j \div 2, k)
         IN  (((h * h) % k) * (IF j % 2 = 1 THEN 2 ELSE 1)) % k

\* bit j after the binary point of 1 / k, k >= 2
RecipBit(k, j) == (2 * PowMod(j - 1, k)) \div k

\* the position after the binary point of the first 1 of 1 / k, k >= 2
FirstOne(k) == CHOOSE p \in 1..30 : Pow2(p) >= k /\ Pow2(p - 1) < k

\* 1.0 / k for an int k >= 1
FloatRecip(k) ==
    IF k = 1 THEN [m |-> <<1>> \o Zeros(Precision - 1), e |-> 1 - Precision]
    ELSE LET p == FirstOne(k)
         IN  RoundDouble([j \in 1..(Precision + 1) |-> RecipBit(k, p + j - 1)],
                         PowMod(p + Precision, k) # 0, -(p + Precision))

RECURSIVE TimesFrom(_, _, _, _)
\* the numeral of n * (the first i groups of bits) + carry
TimesFrom(bits, n, i, carry) ==
    IF i = 0 THEN ToBits(carry, 2 * LimbBits)
    ELSE LET limb == IntOf(SubSeq(bits, (i - 1) * LimbBits + 1, i * LimbBits))
             v == limb * n + carry
         IN  TimesFrom(bits, n, i - 1, v \div Pow2(LimbBits))
                 \o ToBits(v % Pow2(LimbBits), LimbBits)

\* n * x for an int n, 1 <= n < 2^LimbBits (exact as a double itself), and
\* a double x
FloatTimes(n, x) ==
    LET limbs == Ceil(Precision, LimbBits)
        padded == Zeros(limbs * LimbBits - Precision) \o x.m
    IN  RoundDouble(StripZeros(TimesFrom(padded, n, limbs, 0)), FALSE, x.e)

\* math.ceil(x) for a double x with 0 < x < 2^30
FloatCeil(x) ==
    IF x.e >= 0 THEN IntOf(x.m) * Pow2(x.e)
    ELSE IF -x.e >= Precision THEN 1
    ELSE LET whole == SubSeq(x.m, 1, Precision + x.e)
             fraction == SubSeq(x.m, Precision + x.e + 1, Precision)
         IN  IntOf(whole) + (IF \E j \in 1..Len(fraction) : fraction[j] = 1 THEN 1 ELSE 0)

\* lines 303-304: ceil(n * (1.0 / k)) for ints n >= 0, k >= 1
CeilProduct(n, k) == IF n = 0 THEN 0 ELSE FloatCeil(FloatTimes(n, FloatRecip(k)))

\* the values of CeilProduct that the small dispatches need, computed once
SmallShares ==
    [n \in 0..Max(MaxTasks, 2 * ColorMapSize), k \in 1..Max(MaxTargets, ColorMapSize + 1)
        |-> CeilProduct(n, k)]

CeilShare(n, k) ==
    IF <<n, k>> \in DOMAIN SmallShares THEN SmallShares[n, k] ELSE CeilProduct(n, k)

(* ------------------------------ chunker ------------------------------- *)
\* range(0, stop, step) has a next value at position i
RangeHasNext(i, stop, step) == IF step > 0 THEN i < stop ELSE i > stop

\* the chunk chunk_list yields at position i
ChunkAtMut(input_list, n, i) == PySlice(input_list, i, i + n - 1)

ChunkAt(input_list, n, i) == PySlice(input_list, i, i + n)

(* --------------------------- configuration ---------------------------- *)
\* mdict.get("job_limit", 5)
JobLimit(mdict) ==
    IF mdict.job_limit = <<>> THEN DefaultJobLimit ELSE mdict.job_limit[1]

\* "not current_work_load": the key is absent (None) or its value is 0
NoWorkLoad(mdict) ==
    mdict.work_load_ratio = <<>> \/ mdict.work_load_ratio[1] = 0

(* ------------------------------- state -------------------------------- *)
VARIABLES
    task_dirs,            \* input: the task list, task ids in order
    remote_machine_list,  \* input: function 0..M-1 -> mdict
    ncalls,               \* how many invocations the caller makes
    co_pc,                \* per call: position of async_submit_job_multi_remotes
    co_i,                 \* per call: loop index i of the allocation loop
    remain_task_dirs,     \* per call: tasks not yet assigned
    num_machines,         \* per call: the divisor of the implicit share
    num_jobs_log,         \* per call: target -> num_jobs computed for it
    remain_log,           \* per call: target -> len(remain_task_dirs) it saw
    assignment,           \* per call: target -> current_task_dirs
    background_runs,      \* per call: machine indices of the coroutines created
    ex_pc,                \* per call and target: position of async_submit_job_chunk
    chunk_index,          \* per call and target: chunk_index of the for loop
    engine_calls,         \* per call and target: the run_submission calls made
    machine_locks,        \* _machine_locks: machine index -> asyncio.Lock
    cl_pc,                \* chunk_list generator: position
    cl_input,             \* chunk_list generator: input_list
    cl_n,                 \* chunk_list generator: n
    cl_i,                 \* chunk_list generator: i of range(0, len, n)
    cl_out,               \* chunk_list generator: chunks yielded so far
    ui_pc,                \* unpack_indices: position
    ui_inputs,            \* unpack_indices: list_inputs
    ui_k,                 \* unpack_indices: items of list_inputs consumed
    ui_idx,               \* unpack_indices: idx
    vc_pc,                \* validate_config: position
    vc_args,              \* validate_config: the arguments as passed
    vc_config_dict,       \* validate_config: config_dict, None as <<>>
    vc_schema_dict,       \* validate_config: schema_dict, None as <<>>
    ud_pc,                \* unpack_dict: position
    ud_nested,            \* unpack_dict: nested_dict, the values in key order
    ud_i,                 \* unpack_dict: first-level entries consumed
    ud_j,                 \* unpack_dict: items consumed of the current entry
    ud_flat,              \* unpack_dict: flat_dict
    lp_pc,                \* chunk loop, per variant: position
    lp_args,              \* chunk loop: task_list, mdict, machine_index
    lp_k,                 \* chunk loop, per variant: chunk_index
    lp_old,               \* chunk loop, per variant: old_time, None as <<>>
    lp_new,               \* chunk loop, per variant: new_time, None as <<>>
    lp_msgs,              \* chunk loop, per variant: the progress messages logged
    lp_calls,             \* chunk loop, per variant: the run_submission calls made
    lp_now                \* chunk loop: what time.time() returns

vars == <<task_dirs, remote_machine_list, ncalls, co_pc, co_i, remain_task_dirs,
          num_machines, num_jobs_log, remain_log, assignment, background_runs,
          ex_pc, chunk_index, engine_calls, machine_locks,
          cl_pc, cl_input, cl_n, cl_i, cl_out,
          ui_pc, ui_inputs, ui_k, ui_idx,
          vc_pc, vc_args, vc_config_dict, vc_schema_dict,
          ud_pc, ud_nested, ud_i, ud_j, ud_flat,
          lp_pc, lp_args, lp_k, lp_old, lp_new, lp_msgs, lp_calls, lp_now>>

input_vars == <<task_dirs, remote_machine_list, ncalls>>

co_vars == <<co_pc, co_i, remain_task_dirs, num_machines, num_jobs_log,
             remain_log, assignment, background_runs>>

ex_vars == <<ex_pc, chunk_index, engine_calls, machine_locks>>

cl_vars == <<cl_pc, cl_input, cl_n, cl_i, cl_out>>

ui_vars == <<ui_pc, ui_inputs, ui_k, ui_idx>>

vc_vars == <<vc_pc, vc_args, vc_config_dict, vc_schema_dict>>

ud_vars == <<ud_pc, ud_nested, ud_i, ud_j, ud_flat>>

lp_vars == <<lp_pc, lp_args, lp_k, lp_old, lp_new, lp_msgs, lp_calls, lp_now>>

\* the two chunk loops: submit_job_chunk and async_submit_job_chunk
Variants == {"sync", "async"}

\* the state of the functions that are run on their own
pure_vars == <<ui_vars, vc_vars, ud_vars, lp_vars>>

Calls == 1..MaxCalls

NumTargets == Cardinality(DOMAIN remote_machine_list)

Targets == DOMAIN remote_machine_list

Opt(S) == {<<>>} \cup {<<v>> : v \in S}

MDicts(ratios, limits) == [work_load_ratio : ratios, job_limit : limits]

Empty == [x \in {} |-> 0]

(* ------------------------------- Init --------------------------------- *)
\* no call made yet, no lock created
IdleCalls ==
    /\ co_pc = [d \in Calls |-> "idle"]
    /\ co_i = [d \in Calls |-> 0]
    /\ remain_task_dirs = [d \in Calls |-> <<>>]
    /\ num_machines = [d \in Calls |-> 0]
    /\ num_jobs_log = [d \in Calls |-> Empty]
    /\ remain_log = [d \in Calls |-> Empty]
    /\ assignment = [d \in Calls |-> Empty]
    /\ background_runs = [d \in Calls |-> <<>>]
    /\ ex_pc = [d \in Calls |-> Empty]
    /\ chunk_index = [d \in Calls |-> Empty]
    /\ engine_calls = [d \in Calls |-> Empty]
    /\ machine_locks = Empty

\* the dispatcher before any call, for inputs drawn from the given sets
InitDispatch(Ns, Ms, ratios, limits, nc) ==
    /\ \E n \in Ns : task_dirs = [j \in 1..n |-> j]
    /\ \E m \in Ms : remote_machine_list \in [0..(m - 1) -> MDicts(ratios, limits)]
    /\ ncalls \in nc
    /\ IdleCalls

InitChunkOff ==
    /\ cl_pc = "off"
    /\ cl_input = <<>>
    /\ cl_n = 1
    /\ cl_i = 0
    /\ cl_out = <<>>

InitUnpackOff ==
    /\ ui_pc = "off"
    /\ ui_inputs = <<>>
    /\ ui_k = 0
    /\ ui_idx = <<>>

NoArgs ==
    [config_dict |-> <<>>, config_file |-> <<>>, schema_dict |-> <<>>,
     schema_file |-> <<>>, allow_unknown |-> FALSE, require_all |-> FALSE]

InitConfigOff ==
    /\ vc_pc = "off"
    /\ vc_args = NoArgs
    /\ vc_config_dict = <<>>
    /\ vc_schema_dict = <<>>

InitUnpackDictOff ==
    /\ ud_pc = "off"
    /\ ud_nested = <<>>
    /\ ud_i = 0
    /\ ud_j = 0
    /\ ud_flat = Empty

\* no pure function is being evaluated
InitLoopOff ==
    /\ lp_pc = [v \in Variants |-> "off"]
    /\ lp_args = [task_list |-> <<>>, mdict |-> [job_limit |-> <<>>], machine_index |-> 0]
    /\ lp_k = [v \in Variants |-> 0]
    /\ lp_old = [v \in Variants |-> <<>>]
    /\ lp_new = [v \in Variants |-> <<>>]
    /\ lp_msgs = [v \in Variants |-> <<>>]
    /\ lp_calls = [v \in Variants |-> <<>>]
    /\ lp_now = 0

InitPureOff == InitUnpackOff /\ InitConfigOff /\ InitUnpackDictOff /\ InitLoopOff

\* no dispatch is requested
InitDispatchOff == InitDispatch({0}, {0}, {<<>>}, {<<>>}, {0})

(* -------------------- async_submit_job_multi_remotes ------------------- *)
\* the call: lines 292-297, up to the first iteration of the loop
Call(d) ==
    /\ d <= ncalls
    /\ co_pc[d] = "idle"
    /\ co_pc' = [co_pc EXCEPT ![d] = "alloc"]
    /\ co_i' = [co_i EXCEPT ![d] = 0]
    /\ remain_task_dirs' = [remain_task_dirs EXCEPT ![d] = task_dirs]
    /\ num_machines' = [num_machines EXCEPT ![d] = NumTargets]
    /\ background_runs' = [background_runs EXCEPT ![d] = <<>>]
    /\ UNCHANGED <<num_jobs_log, remain_log, assignment>>
    /\ UNCHANGED <<pure_vars, input_vars, ex_vars, cl_vars>>

\* num_jobs of lines 302-306
NumJobsMut(mdict, ntasks, nremain, nmach) ==
    IF NoWorkLoad(mdict)
    THEN CeilShare(nremain, nmach)
    ELSE Ceil(nremain * mdict.work_load_ratio[1], RatioDen)

NumJobsFixedM(mdict, ntasks, nremain, nmach) ==
    IF NoWorkLoad(mdict)
    THEN CeilShare(nremain, NumTargets)
    ELSE Ceil(ntasks * mdict.work_load_ratio[1], RatioDen)

NumJobs(mdict, ntasks, nremain, nmach) ==
    IF NoWorkLoad(mdict)
    THEN CeilShare(nremain, nmach)
    ELSE Ceil(ntasks * mdict.work_load_ratio[1], RatioDen)

\* current_task_dirs of lines 308-314
Take(remain, num_jobs) ==
    IF num_jobs <= Len(remain) THEN PyPrefix(remain, num_jobs) ELSE remain

RestKeep(remain, num_jobs) == remain

\* remain_task_dirs after lines 308-314
Rest(remain, num_jobs) ==
    IF num_jobs <= Len(remain) THEN PySuffix(remain, num_jobs) ELSE <<>>

ShouldStartAlways(current_task_dirs) == Len(current_task_dirs) >= 0

\* line 328: a coroutine is created for the target
ShouldStart(current_task_dirs) == Len(current_task_dirs) > 0

\* one iteration of the loop of lines 298-338
AllocateTarget(d) ==
    /\ co_pc[d] = "alloc"
    /\ co_i[d] < NumTargets
    /\ LET i == co_i[d]
           remain == remain_task_dirs[d]
           num_jobs == NumJobs(remote_machine_list[i], Len(task_dirs),
                               Len(remain), num_machines[d])
           current_task_dirs == Take(remain, num_jobs)
       IN  /\ num_jobs_log' = [num_jobs_log EXCEPT ![d] = (i :> num_jobs) @@ @]
           /\ remain_log' = [remain_log EXCEPT ![d] = (i :> Len(remain)) @@ @]
           /\ assignment' = [assignment EXCEPT ![d] = (i :> current_task_dirs) @@ @]
           /\ remain_task_dirs' = [remain_task_dirs EXCEPT ![d] = Rest(remain, num_jobs)]
           /\ num_machines' = [num_machines EXCEPT ![d] =
                                 IF num_jobs <= Len(remain) THEN @ - 1 ELSE @]
           /\ background_runs' = [background_runs EXCEPT ![d] =
                                 IF ShouldStart(current_task_dirs) THEN Append(@, i) ELSE @]
           /\ co_i' = [co_i EXCEPT ![d] = i + 1]
    /\ UNCHANGED co_pc
    /\ UNCHANGED <<pure_vars, input_vars, ex_vars, cl_vars>>

(* ------------------------- per-machine locks --------------------------- *)
\* asyncio.Lock(): free, nobody waiting
NewLock == [locked |-> FALSE, waiters |-> <<>>]

\* _get_machine_lock: the registry after the lookup of machine_index
GetMachineLockFresh(locks, machine_index) == (machine_index :> NewLock) @@ locks

GetMachineLock(locks, machine_index) ==
    IF machine_index \in DOMAIN locks
    THEN locks
    ELSE (machine_index :> NewLock) @@ locks

LockKeyGlobal(machine_index) == 0

\* line 178: the key under which the wrapper looks up its lock
LockKey(machine_index) == machine_index

\* asyncio.Lock.acquire returns at once iff the lock is free and nobody waits
LockFree(lk) == ~lk.locked /\ lk.waiters = <<>>

ReleaseLockOnSuccess(locks, machine_index, result) ==
    IF result = "ok" THEN [locks EXCEPT ![machine_index].locked = FALSE] ELSE locks

\* lines 180-187: "async with lock" is left, after a return of
\* run_submission or after the except clause handled its exception, and
\* the lock is released
ReleaseLock(locks, machine_index, result) ==
    [locks EXCEPT ![machine_index].locked = FALSE]

\* what the wrapper does with the outcome of run_submission (try/except)
WrapperOutcomePropagate(result) == IF result = "error" THEN "raise" ELSE "continue"

WrapperOutcome(result) == "continue"

ReturnedNotAwaited(calls, result) == calls

\* line 161: the await ends when the engine call in flight, the last one
\* made, has ended with result
Returned(calls, result) == [calls EXCEPT ![Len(calls)].result = result]

\* the chunk index of the iteration after one whose engine call gave result
NextChunkIndexRetry(k, result) == IF result = "error" THEN k ELSE k + 1

NextChunkIndex(k, result) == k + 1

ColorMapHasAny(machine_index) == TRUE

\* line 191: the keys of _COLOR_MAP
ColorMapHas(machine_index) == machine_index \in 0..(ColorMapSize - 1)

(* ------------------------ async_submit_job_chunk ----------------------- *)
TaskList(d, i) == assignment[d][i]

\* the chunk of iteration k of the for loop of execution (d, i)
ChunkOf(d, i, k) ==
    ChunkAt(TaskList(d, i), JobLimit(remote_machine_list[i]),
            k * JobLimit(remote_machine_list[i]))

\* the for loop asks chunk_list for chunk k; when there is one, the execution
\* enters _run_submission_wrapper: it takes the lock of its machine index and
\* starts run_submission in a thread, or it queues for the lock
LoopNext(d, i, k, locks) ==
    LET n == JobLimit(remote_machine_list[i])
        key == LockKey(i)
        reg == GetMachineLock(locks, key)
    IN  IF ~RangeHasNext(k * n, Len(TaskList(d, i)), n)
        THEN [pc |-> "done", locks |-> locks, calls |-> engine_calls[d][i]]
        ELSE IF LockFree(reg[key])
        THEN [pc |-> "in_engine",
              locks |-> [reg EXCEPT ![key].locked = TRUE],
              calls |-> Append(engine_calls[d][i],
                               [task_list |-> ChunkOf(d, i, k), result |-> "running"])]
        ELSE [pc |-> "wait_lock",
              locks |-> [reg EXCEPT ![key].waiters = Append(@, <<d, i>>)],
              calls |-> engine_calls[d][i]]

\* first run of the coroutine: lines 128-161 up to its first suspension.
\* The mdict holds the "machine" and "resources" entries that lines 129-131
\* and _prepare_submission read, so these do not raise; run_submission fails
\* by raising an Exception.
StartExec(d, i) ==
    /\ i \in DOMAIN ex_pc[d]
    /\ ex_pc[d][i] = "ready"
    /\ IF ~ColorMapHas(i) \/ JobLimit(remote_machine_list[i]) = 0
       THEN \* KeyError of _COLOR_MAP[machine_index], ValueError of range(0, len, 0)
            /\ ex_pc' = [ex_pc EXCEPT ![d][i] = "raised"]
            /\ UNCHANGED <<chunk_index, engine_calls, machine_locks>>
       ELSE LET nx == LoopNext(d, i, 0, machine_locks)
            IN  /\ ex_pc' = [ex_pc EXCEPT ![d][i] = nx.pc]
                /\ machine_locks' = nx.locks
                /\ engine_calls' = [engine_calls EXCEPT ![d][i] = nx.calls]
                /\ UNCHANGED chunk_index
    /\ UNCHANGED <<pure_vars, input_vars, co_vars, cl_vars>>

\* a waiter woken by release() takes the lock and starts run_submission
LockGranted(d, i) ==
    /\ i \in DOMAIN ex_pc[d]
    /\ ex_pc[d][i] = "wait_lock"
    /\ ~machine_locks[LockKey(i)].locked
    /\ machine_locks[LockKey(i)].waiters # <<>>
    /\ Head(machine_locks[LockKey(i)].waiters) = <<d, i>>
    /\ machine_locks' = [machine_locks EXCEPT ![LockKey(i)].locked = TRUE,
                                              ![LockKey(i)].waiters = Tail(@)]
    /\ ex_pc' = [ex_pc EXCEPT ![d][i] = "in_engine"]
    /\ engine_calls' = [engine_calls EXCEPT ![d][i] =
          Append(@, [task_list |-> ChunkOf(d, i, chunk_index[d][i]),
                     result |-> "running"])]
    /\ UNCHANGED chunk_index
    /\ UNCHANGED <<pure_vars, input_vars, co_vars, cl_vars>>

\* run_submission ends in its thread with result (returned, or raised an
\* Exception); the wrapper leaves "async with lock" (lines 183-187), the loop
\* goes on to the next chunk (lines 162, 140-161) up to the next suspension
EngineReturn(d, i, result) ==
    /\ i \in DOMAIN ex_pc[d]
    /\ ex_pc[d][i] = "in_engine"
    /\ LET k == chunk_index[d][i]
           recorded == Returned(engine_calls[d][i], result)
           released == ReleaseLock(machine_locks, LockKey(i), result)
       IN  IF WrapperOutcome(result) = "raise"
           THEN /\ ex_pc' = [ex_pc EXCEPT ![d][i] = "raised"]
                /\ engine_calls' = [engine_calls EXCEPT ![d][i] = recorded]
                /\ machine_locks' = released
                /\ UNCHANGED chunk_index
           ELSE LET k2 == NextChunkIndex(k, result)
                    nx == LoopNext(d, i, k2, released)
                IN  /\ chunk_index' = [chunk_index EXCEPT ![d][i] = k2]
                    /\ ex_pc' = [ex_pc EXCEPT ![d][i] = nx.pc]
                    /\ machine_locks' = nx.locks
                    /\ engine_calls' = [engine_calls EXCEPT ![d][i] =
                          IF nx.pc = "in_engine"
                          THEN Append(recorded, [task_list |-> ChunkOf(d, i, k2),
                                                 result |-> "running"])
                          ELSE recorded]
    /\ UNCHANGED <<pure_vars, input_vars, co_vars, cl_vars>>

(* ------------------------ asyncio.gather (340) ------------------------- *)
\* gather delivers its result when every awaitable has finished
AnyFinished(d) == \E i \in DOMAIN ex_pc[d] : ex_pc[d][i] = "done"

AllFinished(d) == \A i \in DOMAIN ex_pc[d] : ex_pc[d][i] = "done"

\* gather delivers the first exception as soon as one awaitable has raised
SomeRaised(d) == \E i \in DOMAIN ex_pc[d] : ex_pc[d][i] = "raised"

\* line 340, after the loop: the coroutines become tasks of the event loop and
\* the coordinator waits; with no coroutine gather() is done at once (341)
Gather(d) ==
    /\ co_pc[d] = "alloc"
    /\ co_i[d] = NumTargets
    /\ LET started == Range(background_runs[d])
       IN  /\ co_pc' = [co_pc EXCEPT ![d] =
                          IF started = {} THEN "returned" ELSE "gather"]
           /\ ex_pc' = [ex_pc EXCEPT ![d] = [i \in started |-> "ready"]]
           /\ chunk_index' = [chunk_index EXCEPT ![d] = [i \in started |-> 0]]
           /\ engine_calls' = [engine_calls EXCEPT ![d] = [i \in started |-> <<>>]]
    /\ UNCHANGED <<co_i, remain_task_dirs, num_machines, num_jobs_log,
                   remain_log, assignment, background_runs, machine_locks>>
    /\ UNCHANGED <<pure_vars, input_vars, cl_vars>>

\* line 341: every execution finished, the coordinator returns
GatherReturn(d) ==
    /\ co_pc[d] = "gather"
    /\ AllFinished(d)
    /\ co_pc' = [co_pc EXCEPT ![d] = "returned"]
    /\ UNCHANGED <<co_i, remain_task_dirs, num_machines, num_jobs_log,
                   remain_log, assignment, background_runs>>
    /\ UNCHANGED <<pure_vars, input_vars, ex_vars, cl_vars>>

\* line 340: an execution raised; gather passes the exception to the
\* coordinator at once and leaves the other executions running
GatherRaise(d) ==
    /\ co_pc[d] = "gather"
    /\ SomeRaised(d)
    /\ co_pc' = [co_pc EXCEPT ![d] = "raised"]
    /\ UNCHANGED <<co_i, remain_task_dirs, num_machines, num_jobs_log,
                   remain_log, assignment, background_runs>>
    /\ UNCHANGED <<pure_vars, input_vars, ex_vars, cl_vars>>

(* --------------------------- the dispatcher ---------------------------- *)
DispatchRatios == {<<>>, <<-1>>, <<2>>}

DispatchLimits == {<<>>, <<-1>>, <<0>>, <<1>>, <<2>>}

\* the end-to-end example: 12 tasks numbered from 0, three targets with
\* (ratio 0.25, job_limit 3), (no ratio, job_limit 5), (no ratio, job_limit 10)
ExampleTasks == [j \in 1..12 |-> j - 1]

ExampleTargets ==
    (0 :> [work_load_ratio |-> <<1>>, job_limit |-> <<3>>])
    @@ (1 :> [work_load_ratio |-> <<>>, job_limit |-> <<5>>])
    @@ (2 :> [work_load_ratio |-> <<>>, job_limit |-> <<10>>])

\* one call over every kind of entry, or several concurrent calls (on one
\* event loop) that all dispatch to one well-formed target, or one call on
\* the end-to-end example
Init ==
    /\ \/ InitDispatch(0..DispTasks, 0..DispTargets, DispatchRatios,
                       DispatchLimits, {1})
       \/ InitDispatch(1..LockTasks, {1}, {<<>>}, {<<1>>, <<2>>}, {MaxCalls})
       \/ /\ task_dirs = ExampleTasks
          /\ remote_machine_list = ExampleTargets
          /\ ncalls = 1
          /\ IdleCalls
    /\ InitChunkOff
    /\ InitPureOff

Next ==
    \/ \E d \in Calls : Call(d)
    \/ \E d \in Calls : AllocateTarget(d)
    \/ \E d \in Calls : Gather(d)
    \/ \E d \in Calls, i \in Targets : StartExec(d, i)
    \/ \E d \in Calls, i \in Targets : LockGranted(d, i)
    \/ \E d \in Calls, i \in Targets, r \in {"ok", "error"} : EngineReturn(d, i, r)
    \/ \E d \in Calls : GatherReturn(d)
    \/ \E d \in Calls : GatherRaise(d)

Spec == Init /\ [][Next]_vars


(* ---------------------- the dispatcher, scheduled ---------------------- *)
\* n tasks over m targets that all use the defaults
DefaultTargets(n, m) ==
    /\ task_dirs = [j \in 1..n |-> j]
    /\ remote_machine_list =
           [i \in 0..(m - 1) |-> [work_load_ratio |-> <<>>, job_limit |-> <<>>]]
    /\ ncalls = 1
    /\ IdleCalls

\* one call over few targets, concurrent calls on one target, and one call
\* with as many targets as _COLOR_MAP has entries
InitLive ==
    /\ \/ InitDispatch(0..LockTasks, 1..DispTargets, {<<>>},
                       {<<>>, <<0>>, <<1>>}, {1})
       \/ InitDispatch({LockTasks}, {1}, {<<>>}, {<<1>>}, {MaxCalls})
       \/ DefaultTargets(ColorMapSize, ColorMapSize)
    /\ InitChunkOff
    /\ InitPureOff

\* a step of a coroutine that the event loop can run
EventLoopStep ==
    \/ \E d \in Calls : AllocateTarget(d) \/ Gather(d) \/ GatherReturn(d) \/ GatherRaise(d)
    \/ \E d \in Calls, i \in Targets : StartExec(d, i) \/ LockGranted(d, i)

\* a run_submission call in flight comes to its end
EngineEnds ==
    \E d \in Calls, i \in Targets, r \in {"ok", "error"} : EngineReturn(d, i, r)

\* the event loop does not stay idle while a coroutine can run, and engine
\* calls do not all hang forever
Fairness == WF_vars(EventLoopStep) /\ WF_vars(EngineEnds)

SpecLive == InitLive /\ [][Next]_vars /\ Fairness

\* one target more than _COLOR_MAP has entries, the last one with a task or
\* without, and concurrent calls on one target
InitPast ==
    /\ \/ DefaultTargets(ColorMapSize + 1, ColorMapSize + 1)
       \/ DefaultTargets(ColorMapSize, ColorMapSize + 1)
       \/ InitDispatch({1}, {1}, {<<>>}, {<<>>}, {PastCalls})
    /\ InitChunkOff
    /\ InitPureOff

SpecPast == InitPast /\ [][Next]_vars /\ Fairness

(* ------------------- the allocation loop on its own ------------------- *)
AllocRatios == Opt(-1..(RatioDen + 1))

InitAlloc ==
    /\ InitDispatch(0..MaxTasks, 0..MaxTargets, AllocRatios, {<<>>}, {1})
    /\ InitChunkOff
    /\ InitPureOff

NextAlloc == Call(1) \/ AllocateTarget(1)

SpecAlloc == InitAlloc /\ [][NextAlloc]_vars

\* many targets that all use the defaults, the tasks a multiple of the
\* targets or one less
InitAllocWide ==
    /\ \E n \in {WideTasks - 1, WideTasks} : DefaultTargets(n, WideTargets)
    /\ InitChunkOff
    /\ InitPureOff

SpecAllocWide == InitAllocWide /\ [][NextAlloc]_vars

(* ----------------------- chunk_list on its own ------------------------ *)
Items == {"a", "b"}

InitChunk ==
    /\ InitDispatch({0}, {0}, {<<>>}, {<<>>}, {0})
    /\ cl_pc = "run"
    /\ cl_input \in UNION {[1..l -> Items] : l \in 0..MaxLen}
    /\ cl_n \in -1..MaxChunk
    /\ cl_i = 0
    /\ cl_out = <<>>
    /\ InitPureOff

\* the generator is resumed and yields the next chunk (lines 10-11)
ChunkYield ==
    /\ cl_pc = "run"
    /\ cl_n # 0
    /\ RangeHasNext(cl_i, Len(cl_input), cl_n)
    /\ cl_out' = Append(cl_out, ChunkAt(cl_input, cl_n, cl_i))
    /\ cl_i' = cl_i + cl_n
    /\ UNCHANGED <<cl_pc, cl_input, cl_n>>
    /\ UNCHANGED <<pure_vars, input_vars, co_vars, ex_vars>>

\* the generator is resumed and range() is exhausted (line 10)
ChunkStop ==
    /\ cl_pc = "run"
    /\ cl_n # 0
    /\ ~RangeHasNext(cl_i, Len(cl_input), cl_n)
    /\ cl_pc' = "exhausted"
    /\ UNCHANGED <<cl_input, cl_n, cl_i, cl_out>>
    /\ UNCHANGED <<pure_vars, input_vars, co_vars, ex_vars>>

\* the generator is resumed for the first time and range(0, len, 0) raises
ChunkRaise ==
    /\ cl_pc = "run"
    /\ cl_n = 0
    /\ cl_pc' = "raised"
    /\ UNCHANGED <<cl_input, cl_n, cl_i, cl_out>>
    /\ UNCHANGED <<pure_vars, input_vars, co_vars, ex_vars>>

NextChunk == ChunkYield \/ ChunkStop \/ ChunkRaise

SpecChunk == InitChunk /\ [][NextChunk]_vars


(* --------------------- unpack_indices on its own ---------------------- *)
DigitChars == <<"0", "1", "2", "3", "4", "5", "6", "7", "8", "9">>

IsDigit(c) == \E k \in 1..Len(DigitChars) : DigitChars[k] = c

DigitValue(c) == (CHOOSE k \in 1..Len(DigitChars) : DigitChars[k] = c) - 1

\* str(n) of a natural number, most significant digit first
RECURSIVE StrNat(_)
StrNat(n) ==
    IF n < Len(DigitChars)
    THEN <<DigitChars[n + 1]>>
    ELSE StrNat(n \div Len(DigitChars)) \o <<DigitChars[(n % Len(DigitChars)) + 1]>>

\* str(n) of an integer
Str(n) == IF n < 0 THEN <<"-">> \o StrNat(-n) ELSE StrNat(n)

\* the value of a non-empty string of digits, read left to right
RECURSIVE DigitsValue(_, _)
DigitsValue(acc, s) ==
    IF s = <<>> THEN acc
    ELSE DigitsValue(acc * Len(DigitChars) + DigitValue(Head(s)), Tail(s))

AllDigits(s) == s # <<>> /\ \A k \in 1..Len(s) : IsDigit(s[k])

\* int(s): <<v>>, or <<>> when int raises ValueError
PyInt(s) ==
    IF s # <<>> /\ Head(s) \in {"-", "+"}
    THEN IF AllDigits(Tail(s))
         THEN <<(IF Head(s) = "-" THEN -1 ELSE 1) * DigitsValue(0, Tail(s))>>
         ELSE <<>>
    ELSE IF AllDigits(s) THEN <<DigitsValue(0, s)>> ELSE <<>>

\* s.split(sep) for a one-character separator
RECURSIVE SplitFrom(_, _, _)
SplitFrom(s, sep, cur) ==
    IF s = <<>> THEN <<cur>>
    ELSE IF Head(s) = sep
         THEN <<cur>> \o SplitFrom(Tail(s), sep, <<>>)
         ELSE SplitFrom(Tail(s), sep, Append(cur, Head(s)))

Split(s, sep) == SplitFrom(s, sep, <<>>)

\* list(range(i, stop, step)) for step # 0
RECURSIVE PyRange(_, _, _)
PyRange(i, stop, step) ==
    IF RangeHasNext(i, stop, step)
    THEN <<i>> \o PyRange(i + step, stop, step)
    ELSE <<>>

RangeStopMut(end) == end

\* the stop of the range of a string item (line 27)
RangeStop(end) == end + 1

\* lines 24-26: [step, start, end] of a string item, or <<>> when the
\* conversion or the unpacking raises ValueError
ParseItem(item) ==
    LET parts == Split(item, ":")
        step  == IF Len(parts) > 1 THEN PyInt(parts[2]) ELSE <<1>>
        ends  == Split(parts[1], "-")
    IN  IF step = <<>> \/ Len(ends) # 2 THEN <<>>
        ELSE IF PyInt(ends[1]) = <<>> \/ PyInt(ends[2]) = <<>> THEN <<>>
        ELSE <<[step |-> step[1], start |-> PyInt(ends[1])[1], end |-> PyInt(ends[2])[1]]>>

\* a string item that makes line 25, 26 or 27 raise ValueError
ItemRaises(item) ==
    IF ParseItem(item) = <<>> THEN TRUE ELSE ParseItem(item)[1].step = 0

IntItem(n) == [kind |-> "int", int |-> n, str |-> <<>>]

StrItem(s) == [kind |-> "str", int |-> 0, str |-> s]

\* an item that is neither an int nor a str
OtherItem == [kind |-> "other", int |-> 0, str |-> <<>>]

\* the text "a-b" (step <<>>) or "a-b:s" (step <<s>>)
RangeText(a, b, step) ==
    Str(a) \o <<"-">> \o Str(b)
    \o (IF step = <<>> THEN <<>> ELSE <<":">> \o Str(step[1]))

RangeSteps == Opt(-1..MaxStep)

RangeTriples ==
    {<<a, b, s>> \in (0..MaxStart) \X (0..(MaxStart + MaxSpan)) \X RangeSteps :
        a - 1 <= b /\ b <= a + MaxSpan}

OddTexts ==
    {<<>>, <<"3">>, <<"x", "-", "5">>, <<"-", "3", "-", "5">>,
     <<"1", "-", "2", "-", "3">>, <<"3", "-", "5", ":">>,
     <<"3", "-", "5", ":", "2", ":", "x">>}

UnpackItems ==
    {IntItem(n) : n \in -1..(MaxStart + MaxSpan)}
    \cup {StrItem(RangeText(t[1], t[2], t[3])) : t \in RangeTriples}
    \cup {StrItem(s) : s \in OddTexts}
    \cup {OtherItem}

\* the input of the repository's test of unpack_indices
ExampleIndices ==
    <<IntItem(1), IntItem(2), StrItem(<<"3", "-", "5", ":", "2">>),
      StrItem(<<"6", "-", "1", "0">>)>>

\* the items of the test, an item of another type and an item that raises
SampleItems ==
    Range(ExampleIndices) \cup {OtherItem, StrItem(<<"3", "-", "5", ":", "0">>)}

\* one item of any form, a list of sample items, or the list of the test
InitUnpack ==
    /\ InitDispatchOff
    /\ InitChunkOff
    /\ InitConfigOff
    /\ InitUnpackDictOff
    /\ InitLoopOff
    /\ ui_pc = "run"
    /\ \/ \E item \in UnpackItems : ui_inputs = <<item>>
       \/ ui_inputs \in UNION {[1..l -> SampleItems] : l \in 0..MaxItems}
       \/ ui_inputs = ExampleIndices
    /\ ui_k = 0
    /\ ui_idx = <<>>

UnpackCurrent == ui_inputs[ui_k + 1]

UnpackLooping == ui_pc = "run" /\ ui_k < Len(ui_inputs)

\* lines 21-22: an int item is appended
UnpackAppend ==
    /\ UnpackLooping
    /\ UnpackCurrent.kind = "int"
    /\ ui_idx' = Append(ui_idx, UnpackCurrent.int)
    /\ ui_k' = ui_k + 1
    /\ UNCHANGED <<ui_pc, ui_inputs>>
    /\ UNCHANGED <<input_vars, co_vars, ex_vars, cl_vars, vc_vars, ud_vars, lp_vars>>

\* lines 23-27: a str item is parsed and its range appended
UnpackExtend ==
    /\ UnpackLooping
    /\ UnpackCurrent.kind = "str"
    /\ ~ItemRaises(UnpackCurrent.str)
    /\ LET p == ParseItem(UnpackCurrent.str)[1]
       IN  ui_idx' = ui_idx \o PyRange(p.start, RangeStop(p.end), p.step)
    /\ ui_k' = ui_k + 1
    /\ UNCHANGED <<ui_pc, ui_inputs>>
    /\ UNCHANGED <<input_vars, co_vars, ex_vars, cl_vars, vc_vars, ud_vars, lp_vars>>

\* lines 25-27: int(), the unpacking or range() raises ValueError
UnpackRaise ==
    /\ UnpackLooping
    /\ UnpackCurrent.kind = "str"
    /\ ItemRaises(UnpackCurrent.str)
    /\ ui_pc' = "raised"
    /\ UNCHANGED <<ui_inputs, ui_k, ui_idx>>
    /\ UNCHANGED <<input_vars, co_vars, ex_vars, cl_vars, vc_vars, ud_vars, lp_vars>>

\* lines 21, 23: an item of another type matches neither branch
UnpackSkip ==
    /\ UnpackLooping
    /\ UnpackCurrent.kind = "other"
    /\ ui_k' = ui_k + 1
    /\ UNCHANGED <<ui_pc, ui_inputs, ui_idx>>
    /\ UNCHANGED <<input_vars, co_vars, ex_vars, cl_vars, vc_vars, ud_vars, lp_vars>>

\* line 28
UnpackReturn ==
    /\ ui_pc = "run"
    /\ ui_k = Len(ui_inputs)
    /\ ui_pc' = "returned"
    /\ UNCHANGED <<ui_inputs, ui_k, ui_idx>>
    /\ UNCHANGED <<input_vars, co_vars, ex_vars, cl_vars, vc_vars, ud_vars, lp_vars>>

NextUnpack ==
    UnpackAppend \/ UnpackExtend \/ UnpackRaise \/ UnpackSkip \/ UnpackReturn

SpecUnpack == InitUnpack /\ [][NextUnpack]_vars


(* --------------------- validate_config on its own --------------------- *)
\* a YAML document or dictionary: key -> <<type, text>> of its value
ConfigDocs ==
    {Empty, "a" :> <<"integer", "1">>, "a" :> <<"integer", "2">>,
     "a" :> <<"string", "x">>, "b" :> <<"integer", "1">>}

\* a schema: key -> the type its rule requires
SchemaDocs == {Empty, "a" :> "integer", "a" :> "string"}

\* Python truth of a dictionary or None (lines 31, 33, 36, 38)
Truthy(d) == d # <<>> /\ d[1] # Empty

\* lines 31-34: the file is loaded only when the dictionary is None or
\* empty; yaml.safe_load(open(file)) is the document the file holds
Load(given, file) == IF ~Truthy(given) /\ file # <<>> THEN file ELSE given

\* line 42: v.validate(config_dict, schema_dict) with type rules
Validates(config, schema, allow_unknown, require_all) ==
    /\ \A k \in DOMAIN config :
          IF k \in DOMAIN schema THEN config[k][1] = schema[k] ELSE allow_unknown
    /\ require_all => DOMAIN schema \subseteq DOMAIN config

InitConfig ==
    /\ InitDispatchOff
    /\ InitChunkOff
    /\ InitUnpackOff
    /\ InitUnpackDictOff
    /\ InitLoopOff
    /\ vc_pc = "load_config"
    /\ vc_args \in [config_dict : Opt(ConfigDocs), config_file : Opt(ConfigDocs),
                    schema_dict : Opt(SchemaDocs), schema_file : Opt(SchemaDocs),
                    allow_unknown : BOOLEAN, require_all : BOOLEAN]
    /\ vc_config_dict = vc_args.config_dict
    /\ vc_schema_dict = vc_args.schema_dict

\* lines 31-32
LoadConfig ==
    /\ vc_pc = "load_config"
    /\ vc_config_dict' = Load(vc_config_dict, vc_args.config_file)
    /\ vc_pc' = "load_schema"
    /\ UNCHANGED <<vc_args, vc_schema_dict>>
    /\ UNCHANGED <<input_vars, co_vars, ex_vars, cl_vars, ui_vars, ud_vars, lp_vars>>

\* lines 33-34
LoadSchema ==
    /\ vc_pc = "load_schema"
    /\ vc_schema_dict' = Load(vc_schema_dict, vc_args.schema_file)
    /\ vc_pc' = "check"
    /\ UNCHANGED <<vc_args, vc_config_dict>>
    /\ UNCHANGED <<input_vars, co_vars, ex_vars, cl_vars, ui_vars, ud_vars, lp_vars>>

\* lines 36-39
CheckGiven ==
    /\ vc_pc = "check"
    /\ vc_pc' = IF Truthy(vc_config_dict) /\ Truthy(vc_schema_dict)
                THEN "validate" ELSE "raised"
    /\ UNCHANGED <<vc_args, vc_config_dict, vc_schema_dict>>
    /\ UNCHANGED <<input_vars, co_vars, ex_vars, cl_vars, ui_vars, ud_vars, lp_vars>>

\* lines 41-46
Validate ==
    /\ vc_pc = "validate"
    /\ vc_pc' = IF Validates(vc_config_dict[1], vc_schema_dict[1],
                             vc_args.allow_unknown, vc_args.require_all)
                THEN "returned" ELSE "invalid"
    /\ UNCHANGED <<vc_args, vc_config_dict, vc_schema_dict>>
    /\ UNCHANGED <<input_vars, co_vars, ex_vars, cl_vars, ui_vars, ud_vars, lp_vars>>

NextConfig == LoadConfig \/ LoadSchema \/ CheckGiven \/ Validate

SpecConfig == InitConfig /\ [][NextConfig]_vars


(* ----------------------- unpack_dict on its own ----------------------- *)
Keys2 == {"x", "y"}

Vals2 == {1, 2}

\* a dictionary in insertion order: <<key, value>> items with distinct keys
OrderedDicts ==
    {s \in UNION {[1..l -> Keys2 \X Vals2] : l \in 0..Cardinality(Keys2)} :
        \A p, q \in 1..Len(s) : p # q => s[p][1] # s[q][1]}

InitUnpackDict ==
    /\ InitDispatchOff
    /\ InitChunkOff
    /\ InitUnpackOff
    /\ InitConfigOff
    /\ InitLoopOff
    /\ ud_pc = "run"
    /\ ud_nested \in UNION {[1..l -> OrderedDicts] : l \in 0..MaxOuter}
    /\ ud_i = 0
    /\ ud_j = 0
    /\ ud_flat = Empty

\* the item key2, val2 the inner loop is at
CurrentItem == ud_nested[ud_i + 1][ud_j + 1]

InInnerLoop ==
    /\ ud_pc = "run"
    /\ ud_i < Len(ud_nested)
    /\ ud_j < Len(ud_nested[ud_i + 1])

KeyFreeMut(key2, flat_dict) == TRUE

\* line 94
KeyFree(key2, flat_dict) == key2 \notin DOMAIN flat_dict

\* lines 94-95
PutItem ==
    /\ InInnerLoop
    /\ KeyFree(CurrentItem[1], ud_flat)
    /\ ud_flat' = (CurrentItem[1] :> CurrentItem[2]) @@ ud_flat
    /\ ud_j' = ud_j + 1
    /\ UNCHANGED <<ud_pc, ud_nested, ud_i>>
    /\ UNCHANGED <<input_vars, co_vars, ex_vars, cl_vars, ui_vars, vc_vars, lp_vars>>

\* lines 96-97
DuplicateKey ==
    /\ InInnerLoop
    /\ ~KeyFree(CurrentItem[1], ud_flat)
    /\ ud_pc' = "raised"
    /\ UNCHANGED <<ud_nested, ud_i, ud_j, ud_flat>>
    /\ UNCHANGED <<input_vars, co_vars, ex_vars, cl_vars, ui_vars, vc_vars, lp_vars>>

\* lines 92-93: the inner loop is exhausted, the outer loop advances
NextEntry ==
    /\ ud_pc = "run"
    /\ ud_i < Len(ud_nested)
    /\ ud_j = Len(ud_nested[ud_i + 1])
    /\ ud_i' = ud_i + 1
    /\ ud_j' = 0
    /\ UNCHANGED <<ud_pc, ud_nested, ud_flat>>
    /\ UNCHANGED <<input_vars, co_vars, ex_vars, cl_vars, ui_vars, vc_vars, lp_vars>>

\* line 98
ReturnFlat ==
    /\ ud_pc = "run"
    /\ ud_i = Len(ud_nested)
    /\ ud_pc' = "returned"
    /\ UNCHANGED <<ud_nested, ud_i, ud_j, ud_flat>>
    /\ UNCHANGED <<input_vars, co_vars, ex_vars, cl_vars, ui_vars, vc_vars, lp_vars>>

NextUnpackDict == PutItem \/ DuplicateKey \/ NextEntry \/ ReturnFlat

SpecUnpackDict == InitUnpackDict /\ [][NextUnpackDict]_vars


(* -------- submit_job_chunk and async_submit_job_chunk on their own ------ *)
\* ":".join(str(datetime.timedelta(seconds=t)).split(":")[:-1]) for t >= 0:
\* the days, hours and minutes that the text shows, the seconds dropped
HmFormat(t) ==
    [days |-> t \div 86400, hours |-> (t % 86400) \div 3600,
     minutes |-> (t % 3600) \div 60]

TimeRemainingNext(time_elapsed, total_chunks, chunk_i) ==
    time_elapsed * (total_chunks - chunk_i - 1)

\* line 207
TimeRemaining(time_elapsed, total_chunks, chunk_i) ==
    time_elapsed * (total_chunks - chunk_i)

RemainingTasksMut(num_tasks, job_limit, chunk_i) ==
    num_tasks - (chunk_i + 1) * job_limit

\* line 204
RemainingTasks(num_tasks, job_limit, chunk_i) ==
    num_tasks - chunk_i * job_limit

\* _info_current_dispatch: the values the text holds; time_left is <<>> when
\* the text has no "Time left"
InfoCurrentDispatch(num_tasks, num_tasks_current_chunk, job_limit, chunk_i, old_time, new_time) ==
    LET total_chunks == Ceil(num_tasks, job_limit)
    IN  [running |-> num_tasks_current_chunk,
         remaining_tasks |-> RemainingTasks(num_tasks, job_limit, chunk_i),
         chunk |-> chunk_i + 1,
         total_chunks |-> total_chunks,
         time_left |->
             IF old_time # <<>> /\ new_time # <<>>
             THEN <<HmFormat(TimeRemaining(new_time[1] - old_time[1],
                                           total_chunks, chunk_i))>>
             ELSE <<>>]

OnEngineErrorCaught(v) == WrapperOutcome("error")

\* what each variant does when run_submission raises: submit_job_chunk lets
\* the exception pass (line 107), async_submit_job_chunk goes through
\* _run_submission_wrapper, which catches it (lines 161, 183-185)
OnEngineError(v) == IF v = "sync" THEN "raise" ELSE WrapperOutcome("error")

LoopChunk(k) ==
    ChunkAt(lp_args.task_list, JobLimit(lp_args.mdict), k * JobLimit(lp_args.mdict))

\* the iteration for chunk k of variant v (lines 94-107, 140-161) up to the
\* start of run_submission, or the end of the loop (lines 109, 163)
LoopIteration(v, k, old_time, calls) ==
    LET n == JobLimit(lp_args.mdict)
        num_tasks == Len(lp_args.task_list)
    IN  IF ~RangeHasNext(k * n, num_tasks, n)
        THEN /\ lp_pc' = [lp_pc EXCEPT ![v] = "done"]
             /\ lp_calls' = [lp_calls EXCEPT ![v] = calls]
             /\ UNCHANGED <<lp_new, lp_msgs>>
        ELSE /\ lp_pc' = [lp_pc EXCEPT ![v] = "in_engine"]
             /\ lp_new' = [lp_new EXCEPT ![v] = <<lp_now>>]
             /\ lp_msgs' = [lp_msgs EXCEPT ![v] =
                   Append(@, [at |-> lp_now,
                              info |-> InfoCurrentDispatch(num_tasks, Len(LoopChunk(k)),
                                                           n, k, old_time, <<lp_now>>)])]
             /\ lp_calls' = [lp_calls EXCEPT ![v] =
                   Append(calls, [task_list |-> LoopChunk(k), result |-> "running"])]

\* the caller runs submit_job_chunk and, when that has ended,
\* async_submit_job_chunk on the same arguments
MayStart(v) ==
    /\ lp_pc[v] = "ready"
    /\ v = "async" => lp_pc["sync"] \in {"done", "raised"}

\* lines 84-94 and 128-140: the call up to the first run_submission
LoopStart(v) ==
    /\ MayStart(v)
    /\ IF ~ColorMapHas(lp_args.machine_index) \/ JobLimit(lp_args.mdict) = 0
       THEN \* KeyError of _COLOR_MAP[machine_index], ValueError of range(0, len, 0)
            /\ lp_pc' = [lp_pc EXCEPT ![v] = "raised"]
            /\ UNCHANGED <<lp_new, lp_msgs, lp_calls>>
       ELSE LoopIteration(v, 0, <<>>, <<>>)
    /\ UNCHANGED <<lp_args, lp_k, lp_old, lp_now>>
    /\ UNCHANGED <<input_vars, co_vars, ex_vars, cl_vars, ui_vars, vc_vars, ud_vars>>

\* run_submission ends with result; lines 107-108 and 161-162, then the next
\* iteration
LoopEngineReturn(v, result) ==
    /\ lp_pc[v] = "in_engine"
    /\ LET recorded == Returned(lp_calls[v], result)
       IN  IF result = "error" /\ OnEngineError(v) = "raise"
           THEN /\ lp_pc' = [lp_pc EXCEPT ![v] = "raised"]
                /\ lp_calls' = [lp_calls EXCEPT ![v] = recorded]
                /\ UNCHANGED <<lp_k, lp_old, lp_new, lp_msgs>>
           ELSE /\ lp_old' = [lp_old EXCEPT ![v] = lp_new[v]]
                /\ lp_k' = [lp_k EXCEPT ![v] = NextChunkIndex(@, result)]
                /\ LoopIteration(v, NextChunkIndex(lp_k[v], result), lp_new[v], recorded)
    /\ UNCHANGED <<lp_args, lp_now>>
    /\ UNCHANGED <<input_vars, co_vars, ex_vars, cl_vars, ui_vars, vc_vars, ud_vars>>

\* time passes while run_submission runs
Tick ==
    /\ \E v \in Variants : lp_pc[v] = "in_engine"
    /\ lp_now < MaxTicks * TickSeconds
    /\ lp_now' = lp_now + TickSeconds
    /\ UNCHANGED <<lp_pc, lp_args, lp_k, lp_old, lp_new, lp_msgs, lp_calls>>
    /\ UNCHANGED <<input_vars, co_vars, ex_vars, cl_vars, ui_vars, vc_vars, ud_vars>>

LoopLimits == {<<>>, <<-1>>, <<0>>, <<1>>, <<2>>}

InitLoop ==
    /\ InitDispatchOff
    /\ InitChunkOff
    /\ InitUnpackOff
    /\ InitConfigOff
    /\ InitUnpackDictOff
    /\ lp_pc = [v \in Variants |-> "ready"]
    /\ \E n \in 0..LoopTasks, limit \in LoopLimits, index \in {0, ColorMapSize} :
          lp_args = [task_list |-> [j \in 1..n |-> j],
                     mdict |-> [job_limit |-> limit],
                     machine_index |-> index]
    /\ lp_k = [v \in Variants |-> 0]
    /\ lp_old = [v \in Variants |-> <<>>]
    /\ lp_new = [v \in Variants |-> <<>>]
    /\ lp_msgs = [v \in Variants |-> <<>>]
    /\ lp_calls = [v \in Variants |-> <<>>]
    /\ lp_now = 0

NextLoop ==
    \/ \E v \in Variants : LoopStart(v)
    \/ \E v \in Variants, r \in {"ok", "error"} : LoopEngineReturn(v, r)
    \/ Tick

SpecLoop == InitLoop /\ [][NextLoop]_vars

(* ------------------- claims about the allocation loop ------------------ *)
AllocDone(d) == co_pc[d] # "idle" /\ co_i[d] = NumTargets

\* a work_load_ratio that is absent or lies in (0,1]
ValidRatio(mdict) ==
    \/ mdict.work_load_ratio = <<>>
    \/ mdict.work_load_ratio[1] \in 1..RatioDen

HasRatio(mdict) == mdict.work_load_ratio # <<>>

\* the per-target assignments concatenated in target index order
AssignedConcat(d) == Flatten([k \in 1..co_i[d] |-> assignment[d][k - 1]])

\* C1: once the allocation loop has run over M >= 1 targets whose ratios are
\* absent or in (0,1], the assignments concatenated in target index order
\* reproduce task_dirs: no task dropped, none duplicated, order preserved.
C1_PartitionExact ==
    \A d \in Calls :
        (AllocDone(d) /\ NumTargets >= 1
            /\ \A i \in Targets : ValidRatio(remote_machine_list[i]))
        => AssignedConcat(d) = task_dirs

UnassignedWithoutRatio(i) ==
    {j \in Targets : j >= i /\ ~HasRatio(remote_machine_list[j])}

\* C6 as claimed: a target without an explicit work_load_ratio receives
\* ceil(remaining / k) tasks, k counting only the targets still unassigned
\* (this one included) that have no explicit ratio.
C6_ShareOverTargetsWithoutRatio ==
    \A d \in Calls : \A i \in DOMAIN assignment[d] :
        ((\A j \in Targets : ValidRatio(remote_machine_list[j]))
            /\ ~HasRatio(remote_machine_list[i]))
        => Len(assignment[d][i])
             = Ceil(remain_log[d][i], Cardinality(UnassignedWithoutRatio(i)))

\* C6 amended: a target without an explicit work_load_ratio (absent, or 0,
\* which the code treats as absent) receives ceil(remaining * (1.0 / k))
\* tasks, the product taken in double precision, k being the number of
\* targets not yet processed, this one included, with or without an explicit
\* ratio; for the divisors of SpecAlloc that is ceil(remaining / k).
C6_ShareOverUnprocessedTargets ==
    \A d \in Calls : \A i \in DOMAIN assignment[d] :
        NoWorkLoad(remote_machine_list[i])
        => /\ Len(assignment[d][i]) = CeilShare(remain_log[d][i], NumTargets - i)
           /\ Len(assignment[d][i]) = Ceil(remain_log[d][i], NumTargets - i)

\* C6 witness: a target without ratio was processed while a target with an
\* explicit ratio was still to come, and the two divisors give different shares
C6_Witness ==
    \E i \in DOMAIN assignment[1] :
        /\ ~HasRatio(remote_machine_list[i])
        /\ \E j \in Targets : j > i /\ HasRatio(remote_machine_list[j])
        /\ \A j \in Targets : ValidRatio(remote_machine_list[j])
        /\ Len(assignment[1][i]) = Ceil(remain_log[1][i], NumTargets - i)
        /\ Len(assignment[1][i])
             # Ceil(remain_log[1][i], Cardinality(UnassignedWithoutRatio(i)))

(* ---------------------- claims about the dispatch ---------------------- *)
Started(d) == DOMAIN ex_pc[d]

\* the calls whose execution for machine index i is inside run_submission
InEngine(i) == {d \in Calls : i \in Started(d) /\ ex_pc[d][i] = "in_engine"}

\* how many chunks chunk_list yields for execution (d, i)
NumChunks(d, i) ==
    LET n == JobLimit(remote_machine_list[i])
    IN  IF n >= 1 THEN Ceil(Len(TaskList(d, i)), n) ELSE 0

\* the entry of target i is malformed: ratio outside (0,1] or job_limit <= 0
Malformed(i) ==
    \/ ~ValidRatio(remote_machine_list[i])
    \/ JobLimit(remote_machine_list[i]) <= 0

\* the execution's own configuration makes it raise (lines 132, 140)
RaisesAtStart(i) ==
    i >= ColorMapSize \/ JobLimit(remote_machine_list[i]) = 0

\* C2: at most one run_submission call per machine index is in flight in any
\* reachable state, also when several calls use the same machine index
\* concurrently on one event loop.
C2_OneEngineCallPerMachine ==
    \A i \in Targets : Cardinality(InEngine(i)) <= 1

\* C2 witness: one call is inside run_submission for a machine index while
\* another call waits for the lock of the same index
C2_Witness ==
    \E i \in Targets : \E d1, d2 \in Calls :
        /\ d1 # d2
        /\ i \in Started(d1) /\ ex_pc[d1][i] = "in_engine"
        /\ i \in Started(d2) /\ ex_pc[d2][i] = "wait_lock"

\* C3: a failed engine call stops nothing: the calls an execution has made
\* are its chunks in order with none skipped whatever their results, an
\* execution that has finished has submitted every one of its chunks, and an
\* execution stops with an error only before its first engine call.
C3_FailureIsolation ==
    \A d \in Calls : \A i \in Started(d) :
        LET made == engine_calls[d][i]
        IN  /\ \A k \in 1..Len(made) : made[k].task_list = ChunkOf(d, i, k - 1)
            /\ ex_pc[d][i] = "done" => Len(made) = NumChunks(d, i)
            /\ ex_pc[d][i] = "raised" => made = <<>>

\* C3 witness: target T finished, its first chunk failed and a later chunk
\* was submitted; another target U of the same call finished its chunks too
C3_Witness ==
    \E d \in Calls : \E t, u \in Started(d) :
        /\ t # u
        /\ ex_pc[d][t] = "done" /\ ex_pc[d][u] = "done"
        /\ Len(engine_calls[d][t]) >= 2
        /\ engine_calls[d][t][1].result = "error"
        /\ engine_calls[d][t][2].result = "ok"
        /\ Len(engine_calls[d][u]) >= 1

\* C4: the coordinator has returned only when every started execution has
\* finished all of its chunks, and an execution is stopped by an error only
\* through its own configuration, never because a sibling failed.
C4_JoinAll ==
    \A d \in Calls :
        /\ co_pc[d] = "returned" =>
              \A i \in Started(d) :
                  /\ ex_pc[d][i] = "done"
                  /\ Len(engine_calls[d][i]) = NumChunks(d, i)
                  /\ \A k \in 1..Len(engine_calls[d][i]) :
                        engine_calls[d][i][k].result # "running"
        /\ \A i \in Started(d) : ex_pc[d][i] = "raised" => RaisesAtStart(i)

\* C4 witness: the coordinator returned after two started executions, one of
\* which had a failed engine call, finished
C4_Witness ==
    \E d \in Calls : \E t, u \in Started(d) :
        /\ t # u
        /\ co_pc[d] = "returned"
        /\ \E k \in 1..Len(engine_calls[d][t]) : engine_calls[d][t][k].result = "error"
        /\ Len(engine_calls[d][u]) >= 1

\* C7: the call fails when there is no target, and only then.
C7_ZeroTargetsRejected ==
    \A d \in Calls :
        /\ co_pc[d] = "returned" => NumTargets >= 1
        /\ co_pc[d] = "raised" => NumTargets = 0

\* C8: with a malformed target entry (ratio outside (0,1], job_limit <= 0) no
\* chunk of any target is submitted to the engine in that dispatch.
C8_MalformedRejected ==
    \A d \in Calls :
        (\E i \in Targets : Malformed(i))
        => \A j \in Started(d) : engine_calls[d][j] = <<>>

\* the engine calls of call d that were passed task t
CallsWithTask(d, t) ==
    {c \in UNION {{<<i, k>> : k \in 1..Len(engine_calls[d][i])} : i \in Started(d)} :
        t \in Range(engine_calls[d][c[1]][c[2]].task_list)}

\* C10: within one dispatch no task is passed to the engine twice (neither
\* after a success nor after a failure), and when the execution of a target
\* with job_limit >= 1 has finished, each of its assigned tasks was passed to
\* the engine in exactly one call.
C10_SubmittedOnce ==
    \A d \in Calls : \A t \in Range(task_dirs) :
        /\ Cardinality(CallsWithTask(d, t)) <= 1
        /\ \A i \in Started(d) :
              (/\ ex_pc[d][i] = "done"
               /\ JobLimit(remote_machine_list[i]) >= 1
               /\ t \in Range(TaskList(d, i)))
              => Cardinality(CallsWithTask(d, t)) = 1

\* C10 witness: a target finished after a failed chunk and a successful chunk
C10_Witness ==
    \E d \in Calls : \E i \in Started(d) :
        /\ ex_pc[d][i] = "done"
        /\ \E k \in 1..Len(engine_calls[d][i]) : engine_calls[d][i][k].result = "error"
        /\ \E k \in 1..Len(engine_calls[d][i]) : engine_calls[d][i][k].result = "ok"

(* ------------------------ claims about chunk_list ---------------------- *)
\* C9: for n >= 1 chunk_list never fails, what it has yielded is a prefix of
\* the input cut into chunks of length n, and once exhausted it has yielded
\* ceil(L/n) chunks whose concatenation is the input, the last one holding
\* between 1 and n items; an empty input yields no chunk.
C9_ChunkList ==
    cl_n >= 1 =>
        /\ cl_pc # "raised"
        /\ Flatten(cl_out) = SubSeq(cl_input, 1, Len(Flatten(cl_out)))
        /\ \A k \in 1..(Len(cl_out) - 1) : Len(cl_out[k]) = cl_n
        /\ \A k \in 1..Len(cl_out) : Len(cl_out[k]) \in 1..cl_n
        /\ cl_pc = "exhausted" =>
              /\ Len(cl_out) = Ceil(Len(cl_input), cl_n)
              /\ Flatten(cl_out) = cl_input
              /\ cl_input = <<>> => cl_out = <<>>

\* C9 witness: chunk_list is exhausted after several chunks, the last shorter
C9_Witness ==
    /\ cl_pc = "exhausted"
    /\ cl_n >= 2
    /\ Len(cl_out) >= 2
    /\ Len(cl_out[Len(cl_out)]) < cl_n

(* --------------------- claims about the example ------------------------ *)
IsExample == task_dirs = ExampleTasks /\ remote_machine_list = ExampleTargets

\* what the example says each target is assigned
ExampleAssignment ==
    (0 :> <<0, 1, 2>>) @@ (1 :> <<3, 4, 5, 6, 7>>) @@ (2 :> <<8, 9, 10, 11>>)

\* C11: on the example (12 tasks 0..11, targets (0.25, 3), (none, 5),
\* (none, 10)) target 0 is assigned [0,1,2], target 1 [3..7] and target 2
\* [8..11], and each target submits its assignment as one single chunk.
C11_Example ==
    IsExample =>
        \A d \in Calls :
            /\ \A i \in DOMAIN assignment[d] : assignment[d][i] = ExampleAssignment[i]
            /\ \A i \in Started(d) :
                  /\ Len(engine_calls[d][i]) <= 1
                  /\ \A k \in 1..Len(engine_calls[d][i]) :
                        engine_calls[d][i][k].task_list = ExampleAssignment[i]
                  /\ ex_pc[d][i] = "done" => Len(engine_calls[d][i]) = 1
            /\ co_pc[d] = "returned" => Started(d) = {0, 1, 2}

\* C11 witness: the example dispatch has returned, the three chunks submitted
C11_Witness ==
    /\ IsExample
    /\ co_pc[1] = "returned"
    /\ \A i \in 0..2 : Len(engine_calls[1][i]) = 1
    /\ engine_calls[1][1][1].task_list = <<3, 4, 5, 6, 7>>

(* ---------------------- claims about unpack_indices -------------------- *)
\* a, a+s, a+2s, ... not exceeding b
Progression(a, b, s) ==
    [j \in 1..Cardinality({x \in a..b : (x - a) % s = 0}) |-> a + (j - 1) * s]

\* the triples <<a, b, step>> with no step or a step s >= 1, and their texts
StepUp == {t \in RangeTriples : t[3] = <<>> \/ t[3][1] >= 1}

StepUpText == [t \in StepUp |-> RangeText(t[1], t[2], t[3])]

\* the readings <<a, b, step>> of a string item as "a-b" or "a-b:s", s >= 1
Readings(item) == {t \in StepUp : item.str = StepUpText[t]}

IsIndexItem(item) ==
    \/ item.kind = "int"
    \/ item.kind = "str" /\ Readings(item) # {}

Expansion(item) ==
    IF item.kind = "int" THEN <<item.int>>
    ELSE LET t == CHOOSE t \in Readings(item) : TRUE
         IN  Progression(t[1], t[2], IF t[3] = <<>> THEN 1 ELSE t[3][1])

\* C12: for a list of integers and strings "a-b" or "a-b:s" (s >= 1)
\* unpack_indices does not raise, idx is at every point the concatenation, in
\* input order, of the expansions of the items consumed so far (an integer
\* expands to itself, "a-b" to a..b, "a-b:s" to a, a+s, ... not exceeding
\* b), and [1, 2, "3-5:2", "6-10"] gives [1,2,3,5,6,7,8,9,10].
C12_UnpackIndices ==
    (ui_pc # "off" /\ \A k \in 1..Len(ui_inputs) : IsIndexItem(ui_inputs[k])) =>
        /\ ui_pc # "raised"
        /\ ui_idx = Flatten([k \in 1..ui_k |-> Expansion(ui_inputs[k])])
        /\ ui_pc = "returned" => ui_k = Len(ui_inputs)
        /\ (ui_pc = "returned" /\ ui_inputs = ExampleIndices) =>
               ui_idx = <<1, 2, 3, 5, 6, 7, 8, 9, 10>>

\* C12 witness: the test's list has been unpacked, a stepped range included
C12_Witness ==
    /\ ui_pc = "returned"
    /\ ui_inputs = ExampleIndices
    /\ Len(ui_idx) = 9

(* ---------------------- claims about validate_config ------------------- *)
Loaded == vc_pc \in {"check", "validate", "returned", "invalid", "raised"}

\* C13: when a file is given together with a non-empty dictionary, what is
\* validated (and what is used as the schema) is the content of the file.
C13_FileOverrides ==
    Loaded =>
        /\ (vc_args.config_file # <<>> /\ Truthy(vc_args.config_dict)) =>
               vc_config_dict = vc_args.config_file
        /\ (vc_args.schema_file # <<>> /\ Truthy(vc_args.schema_dict)) =>
               vc_schema_dict = vc_args.schema_file

(* ------------------------ claims about unpack_dict --------------------- *)
\* the second-level keys of first-level entry e
KeysOf(e) == {ud_nested[e][p][1] : p \in 1..Len(ud_nested[e])}

\* the second-level key/value pairs of the whole nested dictionary
AllPairs == UNION {Range(ud_nested[e]) : e \in 1..Len(ud_nested)}

PairwiseDistinct ==
    \A e, f \in 1..Len(ud_nested) : e # f => KeysOf(e) \cap KeysOf(f) = {}

\* C14: with second-level keys pairwise distinct across the first-level
\* entries unpack_dict returns the union of all second-level key/value
\* pairs; otherwise it raises ValueError, returning nothing, at the first
\* item whose key already occurred under an earlier first-level entry.
C14_UnpackDict ==
    ud_pc # "off" =>
        /\ PairwiseDistinct => ud_pc # "raised"
        /\ ud_pc = "returned" =>
              /\ PairwiseDistinct
              /\ {<<k, ud_flat[k]>> : k \in DOMAIN ud_flat} = AllPairs
        /\ ud_pc = "raised" =>
              /\ ~PairwiseDistinct
              /\ \E e \in 1..ud_i : CurrentItem[1] \in KeysOf(e)
        /\ ud_pc = "run" =>
              \A e, f \in 1..Min(ud_i + 1, Len(ud_nested)) :
                  \A p \in 1..Len(ud_nested[f]) :
                      (e < f /\ (f <= ud_i \/ p <= ud_j)) =>
                          ud_nested[f][p][1] \notin KeysOf(e)

\* C14 witness: the union of two non-empty entries has been returned
C14_Witness ==
    /\ ud_pc = "returned"
    /\ Cardinality(DOMAIN ud_flat) = 2
    /\ \E e, f \in 1..Len(ud_nested) : e # f /\ KeysOf(e) # {} /\ KeysOf(f) # {}

(* ------------------ claims about the assignment slices ----------------- *)
\* the tasks assigned to no target before i, in the original order
NotYetAssigned(d, i) ==
    LET Free(t) == \A k \in 0..(i - 1) : t \notin Range(assignment[d][k])
    IN  SelectSeq(task_dirs, Free)

\* the position of task t in task_dirs
Position(t) == CHOOSE p \in 1..Len(task_dirs) : task_dirs[p] = t

\* C15: with every work_load_ratio absent or in (0,1], each assignment is
\* the front slice of the tasks not assigned before it; no task is in two
\* assignments, and the tasks of target i all precede, in the original
\* order, those of target j for i < j.
C15_FrontSlices ==
    \A d \in Calls :
        (\A i \in Targets : ValidRatio(remote_machine_list[i])) =>
            \A i \in DOMAIN assignment[d] :
                /\ assignment[d][i] =
                       SubSeq(NotYetAssigned(d, i), 1, Len(assignment[d][i]))
                /\ \A j \in DOMAIN assignment[d] :
                      i < j =>
                          /\ Range(assignment[d][i]) \cap Range(assignment[d][j]) = {}
                          /\ \A t \in Range(assignment[d][i]) :
                                \A u \in Range(assignment[d][j]) :
                                    Position(t) < Position(u)

\* C15 witness: three targets, with and without ratio, each given a
\* non-empty slice
C15_Witness ==
    /\ AllocDone(1)
    /\ NumTargets = 3
    /\ \A i \in Targets :
          ValidRatio(remote_machine_list[i]) /\ assignment[1][i] # <<>>
    /\ \E i, j \in Targets :
          HasRatio(remote_machine_list[i]) /\ ~HasRatio(remote_machine_list[j])

(* -------------------- claims about the chunk sequence ------------------ *)
\* execution (d, i) starts an engine call in this step
StartsCall(d, i) ==
    /\ i \in Started(d)
    /\ i \in DOMAIN engine_calls'[d]
    /\ Len(engine_calls'[d][i]) > Len(engine_calls[d][i])

\* C16: within one execution an engine call starts only when every earlier
\* call of that execution has returned (ok or error), and it is the call for
\* the next chunk index: one call is added, for the chunk whose index is the
\* number of calls made before.
C16_ChunksInSequence ==
    [][\A d \in Calls : \A i \in Targets :
          StartsCall(d, i) =>
              LET before == engine_calls[d][i]
                  after == engine_calls'[d][i]
              IN  /\ Len(after) = Len(before) + 1
                  /\ \A k \in 1..Len(before) : after[k].result \in {"ok", "error"}
                  /\ after[Len(after)].result = "running"
                  /\ chunk_index'[d][i] = Len(before)
                  /\ after[Len(after)].task_list = ChunkOf(d, i, chunk_index'[d][i])
                  /\ chunk_index'[d][i] >= chunk_index[d][i]]_vars

\* C16 witness: the call for the second chunk is in flight, the call for the
\* first chunk has returned with an error
C16_Witness ==
    \E d \in Calls : \E i \in Started(d) :
        /\ ex_pc[d][i] = "in_engine"
        /\ chunk_index[d][i] = 1
        /\ Len(engine_calls[d][i]) = 2
        /\ engine_calls[d][i][1].result = "error"
        /\ engine_calls[d][i][2].result = "running"

(* ------------------------ claims about the locks ----------------------- *)
\* C17: the lock of machine index i is held exactly while one engine call
\* for i is in flight; whenever no engine call is in flight for i, after a
\* return or after a failure of run_submission, the lock of i is free.
C17_LockReleased ==
    \A i \in DOMAIN machine_locks :
        /\ InEngine(i) = {} => ~machine_locks[i].locked
        /\ machine_locks[i].locked => Cardinality(InEngine(i)) = 1

\* C17 witness: the last engine call for index i failed, none is in flight
\* and the lock of i is free
C17_Witness ==
    \E d \in Calls : \E i \in Started(d) :
        /\ engine_calls[d][i] # <<>>
        /\ engine_calls[d][i][Len(engine_calls[d][i])].result = "error"
        /\ InEngine(i) = {}
        /\ i \in DOMAIN machine_locks
        /\ ~machine_locks[i].locked

\* execution (d, u) starts to wait for its lock in this step
StartsWaiting(d, u) ==
    /\ u \in Started(d)
    /\ u \in DOMAIN ex_pc'[d]
    /\ ex_pc[d][u] # "wait_lock"
    /\ ex_pc'[d][u] = "wait_lock"

\* C18: the locks of different machine indices are independent: an
\* execution for index U starts to wait for its lock only when an execution
\* of another call for the same index U holds or awaits that lock, whatever
\* calls are in flight for other indices; so the targets of one dispatch,
\* whose indices differ, never wait for each other.
C18_IndependentLocks ==
    [][\A d \in Calls : \A u \in Targets :
          StartsWaiting(d, u) =>
              \E d2 \in Calls \ {d} :
                  /\ u \in Started(d2)
                  /\ ex_pc[d2][u] \in {"in_engine", "wait_lock"}]_vars

\* C18 witness: the first engine call of target T is still in flight while
\* target U of the same dispatch has completed a chunk and has its next
\* engine call in flight
C18_Witness ==
    \E d \in Calls : \E t, u \in Started(d) :
        /\ t # u
        /\ ex_pc[d][t] = "in_engine"
        /\ Len(engine_calls[d][t]) = 1
        /\ ex_pc[d][u] = "in_engine"
        /\ Len(engine_calls[d][u]) = 2
        /\ engine_calls[d][u][1].result = "ok"
        /\ machine_locks[t].locked /\ machine_locks[u].locked

(* ---------------------- claims about empty assignments ----------------- *)
\* every run_submission call of call d, whatever the target
AllEngineCalls(d) == UNION {Range(engine_calls[d][i]) : i \in Started(d)}

\* C19: a target whose assignment is empty gets no coroutine, is never
\* started and never invokes the engine; with zero tasks every target's
\* assignment is empty, nothing is started and the dispatch goes from the
\* allocation loop straight to its return without any run_submission call.
C19_EmptyNeverStarted ==
    \A d \in Calls :
        /\ \A i \in DOMAIN assignment[d] :
              assignment[d][i] = <<>> =>
                  /\ i \notin Range(background_runs[d])
                  /\ i \notin Started(d)
        /\ \A c \in AllEngineCalls(d) : c.task_list # <<>>
        /\ task_dirs = <<>> =>
              /\ \A i \in DOMAIN assignment[d] : assignment[d][i] = <<>>
              /\ Started(d) = {}
              /\ AllEngineCalls(d) = {}
              /\ co_pc[d] \in {"idle", "alloc", "returned"}

\* C19 witness: a dispatch of zero tasks over two targets has returned
C19_Witness ==
    /\ task_dirs = <<>>
    /\ NumTargets = 2
    /\ co_pc[1] = "returned"
    /\ DOMAIN assignment[1] = Targets

(* ------------------------ claims about termination --------------------- *)
\* between one and six targets, each with a ratio absent or in (0,1] and a
\* job_limit >= 1
ValidTargets ==
    /\ NumTargets \in 1..ColorMapSize
    /\ \A i \in Targets : ~Malformed(i)

\* call d has returned and every execution it started has submitted every
\* chunk of its assignment and seen every engine call end
Completed(d) ==
    /\ co_pc[d] = "returned"
    /\ \A i \in Started(d) :
          /\ ex_pc[d][i] = "done"
          /\ Len(engine_calls[d][i]) = NumChunks(d, i)
          /\ \A k \in 1..Len(engine_calls[d][i]) :
                engine_calls[d][i][k].result \in {"ok", "error"}
    /\ Started(d) = {i \in Targets : assignment[d][i] # <<>>}

\* C20: when every engine call comes to an end and coroutines that can run
\* do run, a dispatch over one to six valid targets eventually returns, and
\* then every started target has submitted all the chunks of its assignment;
\* nothing stops a started target early.
C20_Terminates ==
    \A d \in Calls : (co_pc[d] = "alloc" /\ ValidTargets) ~> Completed(d)

\* C20 witness: a dispatch over six targets has completed, every target
\* started, a failed engine call among its calls
C20_Witness ==
    /\ NumTargets = ColorMapSize
    /\ ValidTargets
    /\ Completed(1)
    /\ Started(1) = Targets
    /\ \E i \in Targets : engine_calls[1][i][1].result = "error"

(* ---------------------- claims about the chunk loops -------------------- *)
LoopLimit == JobLimit(lp_args.mdict)

LoopNumTasks == Len(lp_args.task_list)

\* the number of tasks in the engine calls made before call j of variant v
PassedBefore(v, j) ==
    Len(Flatten([c \in 1..(j - 1) |-> lp_calls[v][c].task_list]))

\* C21: with a job limit of at least one, every engine call of a chunk loop
\* is announced by its own message, and the message of chunk k (0-based) of
\* n tasks under limit s holds chunk number k + 1, total ceil(n / s),
\* remaining n - k * s and current size min(s, n - k * s); the remaining
\* count is the number of tasks not yet passed to the engine, and the chunk
\* number is never above the total.
C21_ProgressMessage ==
    \A v \in Variants :
        LoopLimit >= 1 =>
            /\ Len(lp_msgs[v]) = Len(lp_calls[v])
            /\ \A j \in 1..Len(lp_msgs[v]) :
                  LET info == lp_msgs[v][j].info
                      k == j - 1
                  IN  /\ info.chunk = k + 1
                      /\ info.total_chunks = Ceil(LoopNumTasks, LoopLimit)
                      /\ info.remaining_tasks = LoopNumTasks - k * LoopLimit
                      /\ info.running = Min(LoopLimit, LoopNumTasks - k * LoopLimit)
                      /\ info.running = Len(lp_calls[v][j].task_list)
                      /\ info.remaining_tasks = LoopNumTasks - PassedBefore(v, j)
                      /\ info.chunk <= info.total_chunks

\* C21 witness: a loop over three tasks under limit two has announced its
\* second chunk, of one task
C21_Witness ==
    /\ LoopNumTasks = 3
    /\ LoopLimit = 2
    /\ Len(lp_msgs["async"]) = 2
    /\ lp_msgs["async"][2].info.running = 1

\* the chunks of the loop that have not ended when message j is written
ChunksRemaining(j) == Ceil(LoopNumTasks, LoopLimit) - (j - 1)

\* the time between the clock readings of messages j - 1 and j: the time
\* the previous iteration took, its engine call included
ElapsedBefore(v, j) == lp_msgs[v][j].at - lp_msgs[v][j - 1].at

\* C22: the message of a chunk holds a time-left estimate exactly when the
\* chunk is not the first of its loop, and the estimate is the rendering of
\* (time the previous chunk took) * (chunks remaining, the current one
\* counted), whether the previous engine call succeeded or failed.
C22_TimeLeft ==
    \A v \in Variants :
        LoopLimit >= 1 =>
            \A j \in 1..Len(lp_msgs[v]) :
                LET time_left == lp_msgs[v][j].info.time_left
                IN  IF j = 1
                    THEN time_left = <<>>
                    ELSE time_left =
                            <<HmFormat(ElapsedBefore(v, j) * ChunksRemaining(j))>>

\* C22 witness: the second message of a loop of three chunks follows a failed
\* engine call that took two clock steps, and shows an estimate of two minutes
C22_Witness ==
    /\ Len(lp_msgs["async"]) = 2
    /\ lp_calls["async"][1].result = "error"
    /\ ChunksRemaining(2) = 2
    /\ ElapsedBefore("async", 2) = 2 * TickSeconds
    /\ lp_msgs["async"][2].info.time_left = <<HmFormat(4 * TickSeconds)>>
    /\ HmFormat(4 * TickSeconds).minutes = 2

ChunkSequence(v) == [c \in 1..Len(lp_calls[v]) |-> lp_calls[v][c].task_list]

NoCallFailed(v) == \A c \in 1..Len(lp_calls[v]) : lp_calls[v][c].result = "ok"

\* C24: when an engine call of submit_job_chunk fails, the call raises and
\* the failed chunk is the last one submitted; when both loops have ended
\* on the same task list and job limit with no failed engine call, they
\* have submitted the same chunks in the same order.
C24_SyncNoIsolation ==
    /\ \A c \in 1..Len(lp_calls["sync"]) :
          lp_calls["sync"][c].result = "error" =>
              /\ lp_pc["sync"] = "raised"
              /\ c = Len(lp_calls["sync"])
    /\ (/\ lp_pc["sync"] = "done"
        /\ lp_pc["async"] = "done"
        /\ NoCallFailed("sync")
        /\ NoCallFailed("async"))
       => ChunkSequence("sync") = ChunkSequence("async")

\* C24 witness: submit_job_chunk has raised at the first of two chunks, and
\* async_submit_job_chunk has gone on after a failure to submit both
C24_Witness ==
    /\ lp_pc["sync"] = "raised"
    /\ RangeHasNext(LoopLimit, LoopNumTasks, LoopLimit)
    /\ Len(lp_calls["sync"]) = 1
    /\ lp_calls["sync"][1].result = "error"
    /\ lp_pc["async"] = "done"
    /\ Len(lp_calls["async"]) = 2
    /\ lp_calls["async"][1].result = "error"

(* ------------------ claims about targets past _COLOR_MAP ---------------- *)
PastColorMap(d) == {i \in Started(d) : i >= ColorMapSize}

\* C25: a started target with machine index six or more never passes a chunk
\* to the engine and never enters its loop; a dispatch that started one never
\* returns normally, and when coroutines that can run do run the KeyError
\* comes out of async_submit_job_multi_remotes.
C25_ColorMapMiss ==
    /\ [](\A d \in Calls :
            /\ \A i \in PastColorMap(d) :
                  /\ engine_calls[d][i] = <<>>
                  /\ ex_pc[d][i] \in {"ready", "raised"}
            /\ PastColorMap(d) # {} => co_pc[d] # "returned")
    /\ \A d \in Calls : (PastColorMap(d) # {}) ~> (co_pc[d] = "raised")

\* C25 witness: of seven targets with one task each the seventh has raised
\* and the dispatch has raised with it, while the first has submitted its task
C25_Witness ==
    /\ NumTargets = ColorMapSize + 1
    /\ PastColorMap(1) = {ColorMapSize}
    /\ assignment[1][ColorMapSize] # <<>>
    /\ ex_pc[1][ColorMapSize] = "raised"
    /\ engine_calls[1][ColorMapSize] = <<>>
    /\ co_pc[1] = "raised"
    /\ engine_calls[1][0] # <<>>

(* ------------------ claims about allocation by default ----------------- *)
Count(d, i) == Len(assignment[d][i])

\* C23: when no target has an explicit work_load_ratio, the task counts of
\* a finished allocation sum to N, do not increase with the target index,
\* and are each floor(N / M) or ceil(N / M), so that any two differ by at
\* most one.
C23_Balanced ==
    \A d \in Calls :
        (/\ AllocDone(d)
         /\ NumTargets >= 1
         /\ \A i \in Targets : ~HasRatio(remote_machine_list[i]))
        => /\ Len(AssignedConcat(d)) = Len(task_dirs)
           /\ \A i, j \in Targets : i <= j => Count(d, i) >= Count(d, j)
           /\ \A i, j \in Targets : Count(d, i) - Count(d, j) <= 1
           /\ \A i \in Targets :
                 Count(d, i) \in {Len(task_dirs) \div NumTargets,
                                  Ceil(Len(task_dirs), NumTargets)}

====
